---- MODULE Spec2Model ----
(***************************************************************************)
(* RSA hardware/software benchmark with Montgomery accelerators            *)
(* (src/main_1.c): big-integer helpers, Montgomery parameter derivation,   *)
(* the accelerator register protocol with its poll timeout, the two        *)
(* square-and-multiply engines and the benchmark harness.                  *)
(*                                                                         *)
(* Machine words are scaled: a u32 is a WordBits-bit word and a u64 (and   *)
(* int64_t) a 2*WordBits-bit one, so that every intermediate the C code    *)
(* forms in 64 bits is formed here in 2*WordBits bits, with the same       *)
(* wrap-around.  BigNums are functions 0..nwords-1 -> word, little endian, *)
(* as the C arrays are.                                                    *)
(***************************************************************************)
EXTENDS Integers, Sequences, FiniteSets, TLC

\* ------------------------------------------------------------------------
\* Word sizes
\* ------------------------------------------------------------------------

\* bits of a u32 in the model (32 in the source)
WordBits == 12

RECURSIVE Pow2(_)
Pow2(k) == IF k = 0 THEN 1 ELSE 2 * Pow2(k - 1)

\* number of values of a u32, a u64
U32 == Pow2(WordBits)
U64 == Pow2(2 * WordBits)
\* 0xFFFFFFFFFFFFFFFFULL
MAX_U64 == U64 - 1

\* int64_t arithmetic: two's complement wrap of a mathematical integer
S64(x) == ((x + U64 \div 2) % U64) - U64 \div 2

\* C integer division truncates toward zero
CDiv(a, b) ==
    LET aa == IF a < 0 THEN -a ELSE a
        bb == IF b < 0 THEN -b ELSE b
    IN  IF (a < 0) = (b < 0) THEN aa \div bb ELSE -(aa \div bb)

\* ------------------------------------------------------------------------
\* Configuration (sizes are scaled: 32 and 64 words, 32 runs and 100000000
\* polls in the source)
\* ------------------------------------------------------------------------

NWORDS_1024 == 2
NWORDS_2048 == 4
MAX_WORDS == NWORDS_2048
NUM_RUNS == 2
HW_DONE_TIMEOUT == 2

\* the toy key and the example plaintext
RSA_N_WORD0 == 3233
RSA_E == 17
RSA_E_BITS == 5
RSA_D == 2753
RSA_D_BITS == 12
RSA_MSG_WORD0 == 42

\* ------------------------------------------------------------------------
\* Big-integer helpers
\* ------------------------------------------------------------------------

bigint_copy(src, nwords) == [i \in 0 .. nwords - 1 |-> src[i]]

bigint_set_u32(v, nwords) == [i \in 0 .. nwords - 1 |-> IF i = 0 THEN v ELSE 0]

bigint_equal(a, b, nwords) == \A i \in 0 .. nwords - 1 : a[i] = b[i]

\* inner loop of the schoolbook product: for (j = 0; j < nwords; ++j), then
\* tmp[i + nwords] += carry
RECURSIVE modmul_inner(_, _, _, _, _, _, _)
modmul_inner(tmp, A, B, i, j, carry, nwords) ==
    IF j = nwords
    THEN [tmp EXCEPT ![i + nwords] = (@ + carry) % U64]
    ELSE LET t == (tmp[i + j] + A[i] * B[j] + carry) % U64
         IN  modmul_inner([tmp EXCEPT ![i + j] = t % U32], A, B, i, j + 1,
                          t \div U32, nwords)

\* outer loop of the schoolbook product: for (i = 0; i < nwords; ++i)
RECURSIVE modmul_outer(_, _, _, _, _)
modmul_outer(tmp, A, B, i, nwords) ==
    IF i = nwords THEN tmp
    ELSE modmul_outer(modmul_inner(tmp, A, B, i, 0, 0, nwords), A, B, i + 1, nwords)

\* the comparison of the reduction loop, most significant word first:
\* for (i = nwords; i > 0; ) { --i; ... }
RECURSIVE modmul_ge(_, _, _)
modmul_ge(R, N, i) ==
    IF i = 0 THEN 0
    ELSE IF R[i - 1] > N[i - 1] THEN 1
    ELSE IF R[i - 1] < N[i - 1] THEN 0
    ELSE modmul_ge(R, N, i - 1)

\* R -= N with borrow propagation
RECURSIVE modmul_sub(_, _, _, _, _)
modmul_sub(R, N, i, borrow, nwords) ==
    IF i = nwords THEN R
    ELSE LET t == (R[i] - N[i] - borrow) % U64
         IN  modmul_sub([R EXCEPT ![i] = t % U32], N, i + 1,
                        (t \div (U64 \div 2)) % 2, nwords)

\* up to 2^k iterations of the reduction loop
\*   for (;;) { ge = ...; if (!ge) break; R -= N; }
\* stopping at the first that breaks (the iterations are laid out as a
\* balanced tree, which keeps the evaluation shallow)
RECURSIVE modmul_reduce_upto(_, _, _, _)
modmul_reduce_upto(R, N, nwords, k) ==
    IF modmul_ge(R, N, nwords) = 0 THEN R
    ELSE IF k = 0 THEN modmul_sub(R, N, 0, 0, nwords)
    ELSE modmul_reduce_upto(modmul_reduce_upto(R, N, nwords, k - 1), N, nwords, k - 1)

\* the whole reduction loop: batches of 1, 2, 4, ... iterations until it breaks
RECURSIVE modmul_reduce(_, _, _, _)
modmul_reduce(R, N, nwords, k) ==
    LET r == modmul_reduce_upto(R, N, nwords, k)
    IN  IF modmul_ge(r, N, nwords) = 0 THEN r
        ELSE modmul_reduce(r, N, nwords, k + 1)

\* modmul_sw(A, B, N, R, nwords): the words left in R
modmul_sw(A, B, N, nwords) ==
    LET tmp0 == [i \in 0 .. 2 * nwords - 1 |-> 0]
        tmp  == modmul_outer(tmp0, A, B, 0, nwords)
        R0   == [i \in 0 .. nwords - 1 |-> tmp[i] % U32]
    IN  modmul_reduce(R0, N, nwords, 0)

\* ------------------------------------------------------------------------
\* Timer
\* ------------------------------------------------------------------------

\* the same without the + 1ULL of the wrapped branch
Timer_Delta_short(start, end) ==
    IF end >= start THEN (end - start) % U64
    ELSE (((MAX_U64 - start) % U64) + end) % U64

Timer_Delta(start, end) ==
    IF end >= start THEN (end - start) % U64
    ELSE (((((MAX_U64 - start) % U64) + 1) % U64) + end) % U64

\* ------------------------------------------------------------------------
\* Montgomery / RSA setup
\* ------------------------------------------------------------------------

\* while (new_r != 0) { q = r / new_r; ... }: the value of t at the exit
RECURSIVE modinv32_loop(_, _, _, _)
modinv32_loop(t, new_t, r, new_r) ==
    IF new_r = 0 THEN t
    ELSE LET q == CDiv(r, new_r)
         IN  modinv32_loop(new_t, S64(t - S64(q * new_t)),
                           new_r, S64(r - S64(q * new_r)))

\* the same with the quotient rounded up
modinv32_loop_roundup(t, new_t, r, new_r) ==
    modinv32_loop(new_t, S64(t - S64((CDiv(r, new_r) + 1) * new_t)),
                  new_r, S64(r - S64(CDiv(r, new_r) * new_r)))

modinv32_roundup(n) ==
    LET t  == modinv32_loop_roundup(0, 1, S64(U32), n)
        t1 == IF t < 0 THEN S64(t + U32) ELSE t
    IN  t1 % U32

\* inverse of n modulo 2^32 (n must be odd)
modinv32(n) ==
    LET t  == modinv32_loop(0, 1, S64(U32), n)
        t1 == IF t < 0 THEN S64(t + U32) ELSE t
    IN  t1 % U32

\* for (i = 0; i < total_bits; ++i) r = (r * 2ULL) % n0;
\* (the iterations i .. total_bits - 1, taken as two halves; r, a u64, is
\* evaluated before the iterations that use it)
RECURSIVE compute_R2_loop(_, _, _, _)
compute_R2_loop(r, i, total_bits, n0) ==
    IF i >= total_bits \/ r > MAX_U64 THEN r
    ELSE IF total_bits - i = 1 THEN ((r * 2) % U64) % n0
    ELSE LET mid == i + (total_bits - i) \div 2
         IN  compute_R2_loop(compute_R2_loop(r, i, mid, n0), mid, total_bits, n0)

\* the same computation one doubling short
compute_R2_modN_32_short(n0, nwords) ==
    LET total_bits == (WordBits * nwords) % U32
        r == compute_R2_loop(1, 0, total_bits - 1, n0)
    IN  (((r * r) % U64) % n0) % U32

\* R^2 mod n0, where R = 2^(32*nwords)
compute_R2_modN_32(n0, nwords) ==
    LET total_bits == (WordBits * nwords) % U32
        r == compute_R2_loop(1, 0, total_bits, n0)
    IN  (((r * r) % U64) % n0) % U32

\* the largest product compute_R2_modN_32 forms before it is cut to 64 bits:
\* r * 2ULL in each doubling, r * r at the end
RECURSIVE compute_R2_peak_loop(_, _, _, _)
compute_R2_peak_loop(s, i, total_bits, n0) ==
    IF i >= total_bits \/ s.r > MAX_U64 THEN s
    ELSE IF total_bits - i = 1
         THEN [r |-> ((s.r * 2) % U64) % n0,
               peak |-> IF s.r * 2 > s.peak THEN s.r * 2 ELSE s.peak]
    ELSE LET mid == i + (total_bits - i) \div 2
         IN  compute_R2_peak_loop(compute_R2_peak_loop(s, i, mid, n0),
                                  mid, total_bits, n0)

compute_R2_peak(n0, nwords) ==
    LET s == compute_R2_peak_loop([r |-> 1, peak |-> 0], 0,
                                  (WordBits * nwords) % U32, n0)
    IN  IF s.r * s.r > s.peak THEN s.r * s.r ELSE s.peak

\* ------------------------------------------------------------------------
\* State
\* ------------------------------------------------------------------------

VARIABLES
    RSA_N,      \* the modulus array (static, MAX_WORDS words)
    RSA_MSG,    \* the plaintext array (static const)
    RSA_R2,     \* RSA_R2_1024 / RSA_R2_2048, indexed by the word count
    NPRIME,     \* NPRIME_1024 / NPRIME_2048, indexed by the word count
    pc,         \* position of main
    cfg,        \* the benchmark_rsa_size call in progress: 1 (2048), 2 (1024)
    phase,      \* benchmark_rsa_size: the loop it is in
    run,        \* benchmark_rsa_size: the loop counter run
    mem,        \* the scratch arrays of the active frames
    hw,         \* frame of modexp_hw_scalar
    mm,         \* frame of montgomery_mul_hw
    sw,         \* frame of modexp_sw_scalar
    dev,        \* the accelerator at the base address of the running benchmark
    trace,      \* what the current montgomery_mul_hw call did so far
    out,        \* what each benchmark printed
    fn,         \* the function under test (function harnesses), or "main"
    arg,        \* its arguments
    res         \* its result

globals == <<RSA_N, RSA_MSG, RSA_R2, NPRIME>>
control == <<pc, cfg, phase, run>>
frames == <<hw, mm, sw>>
harness == <<fn, arg, res>>
vars == <<RSA_N, RSA_MSG, RSA_R2, NPRIME, pc, cfg, phase, run, mem, hw, mm, sw,
          dev, trace, out, fn, arg, res>>

Words == {NWORDS_1024, NWORDS_2048}

\* the word count of benchmark c: main runs the 2048-bit one first
CfgWords(c) == IF c = 1 THEN NWORDS_2048 ELSE NWORDS_1024

\* a word that was never written (an uninitialised local array)
Garbage == -1
Uninit == [i \in 0 .. MAX_WORDS - 1 |-> Garbage]
Zeros == [i \in 0 .. MAX_WORDS - 1 |-> 0]

\* an array of MAX_WORDS words whose first nwords are those of val
Store(buf, val, nwords) ==
    [i \in 0 .. MAX_WORDS - 1 |-> IF i < nwords THEN val[i] ELSE buf[i]]

Bufs == {"msg", "c_hw", "m_hw", "c_sw", "m_sw",
         "hw_one", "hw_x", "hw_a", "sw_one", "sw_x", "sw_a"}

\* the array a pointer argument names
Load(name) ==
    IF name = "N" THEN RSA_N
    ELSE IF name = "R2" THEN RSA_R2[CfgWords(cfg)]
    ELSE mem[name]

\* Fill R2_out[] and nprime_out for a given word size
init_mont_params_for_size(nwords) ==
    LET n0     == RSA_N[0]
        inv    == modinv32(n0)
        nprime == (0 - inv) % U32
        r2     == compute_R2_modN_32(n0, nwords)
    IN  [R2 |-> [i \in 0 .. MAX_WORDS - 1 |-> IF i = 0 THEN r2 ELSE 0],
         nprime |-> nprime]

\* ------------------------------------------------------------------------
\* The accelerator: a word-serial Montgomery multiplier behind the register
\* file.  It returns A * B * R^-1 mod N with R = 2^(32 * nwords), using n'
\* to clear the low word of the running sum in each round.
\* ------------------------------------------------------------------------

\* t += m * Y over nwords words, t being nwords + 2 words long
RECURSIVE mont_mac(_, _, _, _, _, _)
mont_mac(t, m, Y, j, carry, nwords) ==
    IF j = nwords
    THEN LET s == t[nwords] + carry
         IN  [t EXCEPT ![nwords] = s % U32,
                       ![nwords + 1] = (@ + s \div U32) % U32]
    ELSE LET s == t[j] + m * Y[j] + carry
         IN  mont_mac([t EXCEPT ![j] = s % U32], m, Y, j + 1, s \div U32, nwords)

\* one round: t = (t + A * b + m * N) / 2^32 with m = t[0] * n' mod 2^32
mont_round(t, A, b, N, nprime, nwords) ==
    LET t1 == mont_mac(t, b, A, 0, 0, nwords)
        m  == (t1[0] * nprime) % U32
        t2 == mont_mac(t1, m, N, 0, 0, nwords)
    IN  [j \in 0 .. nwords + 1 |-> IF j <= nwords THEN t2[j + 1] ELSE 0]

RECURSIVE mont_rounds(_, _, _, _, _, _, _)
mont_rounds(t, A, B, N, nprime, i, nwords) ==
    IF i = nwords THEN t
    ELSE mont_rounds(mont_round(t, A, B[i], N, nprime, nwords),
                     A, B, N, nprime, i + 1, nwords)

\* t >= N on the low nwords words, most significant first
RECURSIVE mont_geq(_, _, _)
mont_geq(t, N, i) ==
    IF i = 0 THEN TRUE
    ELSE IF t[i - 1] > N[i - 1] THEN TRUE
    ELSE IF t[i - 1] < N[i - 1] THEN FALSE
    ELSE mont_geq(t, N, i - 1)

RECURSIVE mont_sub(_, _, _, _, _)
mont_sub(t, N, i, borrow, nwords) ==
    IF i = nwords THEN t
    ELSE LET d == t[i] - N[i] - borrow
         IN  mont_sub([t EXCEPT ![i] = d % U32], N, i + 1,
                      IF d < 0 THEN 1 ELSE 0, nwords)

\* the result registers after a multiplication
MontMulDevice(A, B, N, nprime, nwords) ==
    LET t0 == [j \in 0 .. nwords + 1 |-> 0]
        t  == mont_rounds(t0, A, B, N, nprime, 0, nwords)
        r  == IF t[nwords] > 0 \/ mont_geq(t, N, nwords)
              THEN mont_sub(t, N, 0, 0, nwords) ELSE t
    IN  [i \in 0 .. MAX_WORDS - 1 |-> IF i < nwords THEN r[i] ELSE 0]

DevReset ==
    [A |-> Zeros, B |-> Zeros, N |-> Zeros, nprime |-> 0,
     status |-> 0, busy |-> FALSE, res |-> Zeros]

\* the device finishes the multiplication it was started on
device_complete ==
    /\ dev.busy
    /\ dev' = [dev EXCEPT !.busy = FALSE, !.status = 1,
                          !.res = MontMulDevice(dev.A, dev.B, dev.N, dev.nprime,
                                                CfgWords(cfg))]
    /\ UNCHANGED <<globals, control, mem, frames, trace, out, harness>>

\* ------------------------------------------------------------------------
\* HW Montgomery wrapper (with timeout)
\* ------------------------------------------------------------------------

MmIdle ==
    [pc |-> "idle", i |-> 0, polls |-> 0, A |-> "", B |-> "", R |-> "",
     ok |-> 1, Ain |-> Uninit, Bin |-> Uninit, Rin |-> Uninit]
HwIdle ==
    [pc |-> "idle", bit |-> 0, exp |-> 0, exp_bits |-> 0, base |-> "", result |-> ""]
SwIdle ==
    [pc |-> "idle", bit |-> 0, exp |-> 0, exp_bits |-> 0, base |-> "", result |-> ""]

Access(op, reg, idx, val) == [op |-> op, reg |-> reg, idx |-> idx, val |-> val]

\* the arguments A, B, R of the montgomery_mul_hw call at each call site of
\* modexp_hw_scalar (N, nprime, base_addr and label are the same in all)
CallArgs(site) ==
    IF site = "mul_one_R2" THEN <<"hw_one", "R2", "hw_x">>
    ELSE IF site = "mul_base_R2" THEN <<hw.base, "R2", "hw_a">>
    ELSE IF site = "mul_x_a" THEN <<"hw_x", "hw_a", "hw_x">>
    ELSE IF site = "mul_a_a" THEN <<"hw_a", "hw_a", "hw_a">>
    ELSE <<"hw_x", "hw_one", hw.result>>

CallSites == {"mul_one_R2", "mul_base_R2", "mul_x_a", "mul_a_a", "mul_x_one"}

\* modexp_hw_scalar calls montgomery_mul_hw
mm_call ==
    /\ hw.pc \in CallSites
    /\ mm.pc = "idle"
    /\ LET args == CallArgs(hw.pc)
       IN  mm' = [pc |-> "write", i |-> 0, polls |-> 0, A |-> args[1],
                  B |-> args[2], R |-> args[3], ok |-> 1,
                  Ain |-> Load(args[1]), Bin |-> Load(args[2]),
                  Rin |-> mem[args[3]]]
    /\ trace' = <<>>
    /\ UNCHANGED <<globals, control, mem, hw, sw, dev, out, harness>>

\* one iteration of the loop that writes A[i], B[i], N[i]
mm_write_operands ==
    /\ mm.pc = "write"
    /\ mm.i < CfgWords(cfg)
    /\ LET i == mm.i
           a == Load(mm.A)[i]
           b == Load(mm.B)[i]
           n == Load("N")[i]
       IN  /\ dev' = [dev EXCEPT !.A[i] = a, !.B[i] = b, !.N[i] = n]
           /\ trace' = trace \o <<Access("write", "A", i, a),
                                  Access("write", "B", i, b),
                                  Access("write", "N", i, n)>>
    /\ mm' = [mm EXCEPT !.i = @ + 1]
    /\ UNCHANGED <<globals, control, mem, hw, sw, out, harness>>

\* the start written before n' (what the ordering of the two writes rules out)
mm_start_early ==
    /\ mm.pc = "write"
    /\ mm.i >= CfgWords(cfg)
    /\ dev' = [dev EXCEPT !.nprime = NPRIME[CfgWords(cfg)],
                          !.status = 0, !.busy = TRUE]
    /\ trace' = trace \o <<Access("write", "CONTROL", 0, 1),
                           Access("write", "NPRIME", 0, NPRIME[CfgWords(cfg)])>>
    /\ mm' = [mm EXCEPT !.pc = "poll", !.polls = 0]
    /\ UNCHANGED <<globals, control, mem, hw, sw, out, harness>>

\* Xil_Out32(REG_NPRIME, nprime); Xil_Out32(REG_CONTROL, 1): the device starts
mm_start ==
    /\ mm.pc = "write"
    /\ mm.i >= CfgWords(cfg)
    /\ dev' = [dev EXCEPT !.nprime = NPRIME[CfgWords(cfg)],
                          !.status = 0, !.busy = TRUE]
    /\ trace' = trace \o <<Access("write", "NPRIME", 0, NPRIME[CfgWords(cfg)]),
                           Access("write", "CONTROL", 0, 1)>>
    /\ mm' = [mm EXCEPT !.pc = "poll", !.polls = 0]
    /\ UNCHANGED <<globals, control, mem, hw, sw, out, harness>>

\* the status read finds bit 0 set: the loop ends
mm_poll_done ==
    /\ mm.pc = "poll"
    /\ dev.status % 2 = 1
    /\ trace' = Append(trace, Access("read", "STATUS", 0, dev.status))
    /\ mm' = [mm EXCEPT !.pc = "read", !.i = 0]
    /\ UNCHANGED <<globals, control, mem, hw, sw, dev, out, harness>>

\* the status read finds bit 0 clear and ++polls <= HW_DONE_TIMEOUT
mm_poll_wait ==
    /\ mm.pc = "poll"
    /\ dev.status % 2 = 0
    /\ ~((mm.polls + 1) % U32 > HW_DONE_TIMEOUT)
    /\ trace' = Append(trace, Access("read", "STATUS", 0, dev.status))
    /\ mm' = [mm EXCEPT !.polls = (@ + 1) % U32]
    /\ UNCHANGED <<globals, control, mem, hw, sw, dev, out, harness>>

\* the status read finds bit 0 clear and ++polls > HW_DONE_TIMEOUT: the error
\* is printed and the call returns 0
mm_poll_timeout ==
    /\ mm.pc = "poll"
    /\ dev.status % 2 = 0
    /\ (mm.polls + 1) % U32 > HW_DONE_TIMEOUT
    /\ trace' = trace \o <<Access("read", "STATUS", 0, dev.status),
                           Access("print", "TIMEOUT", 0, 0)>>
    /\ mm' = [mm EXCEPT !.polls = (@ + 1) % U32, !.pc = "ret", !.ok = 0]
    /\ out' = [out EXCEPT ![cfg].timeouts = @ + 1]
    /\ UNCHANGED <<globals, control, mem, hw, sw, dev, harness>>

\* one iteration of R[i] = Xil_In32(REG_RES(base_addr, i))
mm_read_result ==
    /\ mm.pc = "read"
    /\ mm.i < CfgWords(cfg)
    /\ mem' = [mem EXCEPT ![mm.R][mm.i] = dev.res[mm.i]]
    /\ trace' = Append(trace, Access("read", "RES", mm.i, dev.res[mm.i]))
    /\ mm' = [mm EXCEPT !.i = @ + 1]
    /\ UNCHANGED <<globals, control, hw, sw, dev, out, harness>>

\* return 1
mm_return ==
    /\ mm.pc = "read"
    /\ mm.i >= CfgWords(cfg)
    /\ mm' = [mm EXCEPT !.pc = "ret", !.ok = 1]
    /\ UNCHANGED <<globals, control, mem, hw, sw, dev, trace, out, harness>>

\* ------------------------------------------------------------------------
\* HW and SW modular exponentiation (square-and-multiply, scalar exponent)
\* ------------------------------------------------------------------------

ExpBit(exp, bit) == (exp \div Pow2(bit)) % 2

\* where for (bit = ...; bit < exp_bits; ++bit) goes with the counter at bit
LoopHead(exp, bit, exp_bits) ==
    IF bit < exp_bits
    THEN (IF ExpBit(exp, bit) = 1 THEN "mul_x_a" ELSE "mul_a_a")
    ELSE "mul_x_one"

\* where modexp_hw_scalar goes after a montgomery_mul_hw call that returned 1
modexp_hw_scalar_continue ==
    IF hw.pc = "mul_one_R2" THEN [hw EXCEPT !.pc = "mul_base_R2"]
    ELSE IF hw.pc = "mul_base_R2"
         THEN [hw EXCEPT !.bit = 0, !.pc = LoopHead(hw.exp, 0, hw.exp_bits)]
    ELSE IF hw.pc = "mul_x_a" THEN [hw EXCEPT !.pc = "mul_a_a"]
    ELSE IF hw.pc = "mul_a_a"
         THEN [hw EXCEPT !.bit = @ + 1,
                         !.pc = LoopHead(hw.exp, hw.bit + 1, hw.exp_bits)]
    ELSE [hw EXCEPT !.pc = "ret1"]

\* the result of the call not tested (what if (!ok) return 0 rules out)
modexp_hw_scalar_step_unchecked ==
    /\ mm.pc = "ret"
    /\ mm' = MmIdle
    /\ hw' = modexp_hw_scalar_continue
    /\ trace' = <<>>
    /\ UNCHANGED <<globals, control, mem, sw, dev, out, harness>>

\* modexp_hw_scalar takes the result of a montgomery_mul_hw call:
\* if (!ok) return 0; otherwise on to the next call
modexp_hw_scalar_step ==
    /\ mm.pc = "ret"
    /\ mm' = MmIdle
    /\ hw' = IF mm.ok = 0 THEN [hw EXCEPT !.pc = "ret0"]
             ELSE modexp_hw_scalar_continue
    /\ trace' = <<>>
    /\ UNCHANGED <<globals, control, mem, sw, dev, out, harness>>

\* the iteration with the square taken before the multiplication
modexp_sw_iter_square_first(x, a, exp, bit, N, nwords) ==
    LET a1 == modmul_sw(a, a, N, nwords)
        x1 == IF ExpBit(exp, bit) = 1 THEN modmul_sw(x, a1, N, nwords)
              ELSE bigint_copy(x, nwords)
    IN  [x |-> x1, a |-> a1]

\* one iteration of the loop of modexp_sw_scalar, on the words of x and a
modexp_sw_iter(x, a, exp, bit, N, nwords) ==
    LET x1 == IF ExpBit(exp, bit) = 1 THEN modmul_sw(x, a, N, nwords)
              ELSE bigint_copy(x, nwords)
    IN  [x |-> x1, a |-> modmul_sw(a, a, N, nwords)]

modexp_sw_scalar_loop ==
    /\ sw.pc = "loop"
    /\ sw.bit < sw.exp_bits
    /\ LET it == modexp_sw_iter(mem.sw_x, mem.sw_a, sw.exp, sw.bit, RSA_N,
                                CfgWords(cfg))
       IN  mem' = [mem EXCEPT !.sw_x = Store(@, it.x, CfgWords(cfg)),
                              !.sw_a = Store(@, it.a, CfgWords(cfg))]
    /\ sw' = [sw EXCEPT !.bit = @ + 1]
    /\ UNCHANGED <<globals, control, hw, mm, dev, trace, out, harness>>

\* bigint_copy(result, x, nwords) and the return to the benchmark loop
modexp_sw_scalar_return ==
    /\ sw.pc = "loop"
    /\ sw.bit >= sw.exp_bits
    /\ mem' = [mem EXCEPT ![sw.result] =
                  Store(@, bigint_copy(mem.sw_x, CfgWords(cfg)), CfgWords(cfg))]
    /\ sw' = SwIdle
    /\ run' = run + 1
    /\ UNCHANGED <<globals, pc, cfg, phase, hw, mm, dev, trace, out, harness>>

\* ------------------------------------------------------------------------
\* Benchmark for a single key size, and main
\* ------------------------------------------------------------------------

OutNone ==
    [timeouts |-> 0, aborts |-> 0, phases |-> 0, report |-> 0,
     hw_ok |-> FALSE, sw_ok |-> FALSE]

NextPhase(p) ==
    IF p = "hw_enc" THEN "hw_dec"
    ELSE IF p = "hw_dec" THEN "sw_enc"
    ELSE IF p = "sw_enc" THEN "sw_dec"
    ELSE "report"

\* Timer_Init and the two init_mont_params_for_size calls
main_init ==
    /\ pc = "main"
    /\ RSA_R2' = [w \in Words |-> init_mont_params_for_size(w).R2]
    /\ NPRIME' = [w \in Words |-> init_mont_params_for_size(w).nprime]
    /\ pc' = "call_bench"
    /\ cfg' = 1
    /\ UNCHANGED <<RSA_N, RSA_MSG, phase, run, mem, frames, dev, trace, out, harness>>

\* benchmark_rsa_size is entered: bigint_copy(msg, RSA_MSG, nwords)
benchmark_enter ==
    /\ pc = "call_bench"
    /\ pc' = "bench"
    /\ phase' = "hw_enc"
    /\ run' = 0
    /\ mem' = [mem EXCEPT !.msg =
                  Store(@, bigint_copy(RSA_MSG, CfgWords(cfg)), CfgWords(cfg))]
    /\ dev' = DevReset
    /\ UNCHANGED <<globals, cfg, frames, trace, out, harness>>

\* a run of a HW loop calls modexp_hw_scalar: bigint_set_u32(one, 1U, nwords)
benchmark_hw_run ==
    /\ pc = "bench"
    /\ phase \in {"hw_enc", "hw_dec"}
    /\ run < NUM_RUNS
    /\ hw.pc = "idle"
    /\ hw' = IF phase = "hw_enc"
             THEN [pc |-> "mul_one_R2", bit |-> 0, exp |-> RSA_E,
                   exp_bits |-> RSA_E_BITS, base |-> "msg", result |-> "c_hw"]
             ELSE [pc |-> "mul_one_R2", bit |-> 0, exp |-> RSA_D,
                   exp_bits |-> RSA_D_BITS, base |-> "c_hw", result |-> "m_hw"]
    /\ mem' = [mem EXCEPT !.hw_one = Store(@, bigint_set_u32(1, CfgWords(cfg)),
                                           CfgWords(cfg)),
                          !.hw_x = Uninit, !.hw_a = Uninit]
    /\ UNCHANGED <<globals, control, mm, sw, dev, trace, out, harness>>

\* modexp_hw_scalar returned 1
benchmark_hw_done ==
    /\ hw.pc = "ret1"
    /\ hw' = HwIdle
    /\ run' = run + 1
    /\ UNCHANGED <<globals, pc, cfg, phase, mem, mm, sw, dev, trace, out, harness>>

\* benchmark_rsa_size returns to main
Leave ==
    /\ mem' = [b \in Bufs |-> Uninit]
    /\ hw' = HwIdle
    /\ mm' = MmIdle
    /\ sw' = SwIdle
    /\ trace' = <<>>
    /\ phase' = "none"
    /\ run' = 0
    /\ pc' = IF cfg = 1 THEN "call_bench" ELSE "idle"
    /\ cfg' = IF cfg = 1 THEN 2 ELSE cfg

\* modexp_hw_scalar returned 0: "[ERROR] Aborting ..." and return
benchmark_hw_abort ==
    /\ hw.pc = "ret0"
    /\ out' = [out EXCEPT ![cfg].aborts = @ + 1]
    /\ Leave
    /\ UNCHANGED <<globals, dev, harness>>

\* a run of a SW loop calls modexp_sw_scalar
benchmark_sw_run ==
    /\ pc = "bench"
    /\ phase \in {"sw_enc", "sw_dec"}
    /\ run < NUM_RUNS
    /\ sw.pc = "idle"
    /\ sw' = IF phase = "sw_enc"
             THEN [pc |-> "loop", bit |-> 0, exp |-> RSA_E,
                   exp_bits |-> RSA_E_BITS, base |-> "msg", result |-> "c_sw"]
             ELSE [pc |-> "loop", bit |-> 0, exp |-> RSA_D,
                   exp_bits |-> RSA_D_BITS, base |-> "c_sw", result |-> "m_sw"]
    /\ LET nw == CfgWords(cfg)
           base == IF phase = "sw_enc" THEN mem.msg ELSE mem.c_sw
       IN  mem' = [mem EXCEPT !.sw_one = Store(Uninit, bigint_set_u32(1, nw), nw),
                              !.sw_x = Store(Uninit, bigint_set_u32(1, nw), nw),
                              !.sw_a = Store(Uninit, bigint_copy(base, nw), nw)]
    /\ UNCHANGED <<globals, control, hw, mm, dev, trace, out, harness>>

\* a loop of NUM_RUNS runs is over
benchmark_next_phase ==
    /\ pc = "bench"
    /\ phase \in {"hw_enc", "hw_dec", "sw_enc", "sw_dec"}
    /\ run >= NUM_RUNS
    /\ hw.pc = "idle"
    /\ sw.pc = "idle"
    /\ phase' = NextPhase(phase)
    /\ run' = 0
    /\ out' = [out EXCEPT ![cfg].phases = @ + 1]
    /\ UNCHANGED <<globals, pc, cfg, mem, frames, dev, trace, harness>>

\* the performance lines and the [Correctness] lines
benchmark_report ==
    /\ pc = "bench"
    /\ phase = "report"
    /\ out' = [out EXCEPT ![cfg].report = @ + 1,
                          ![cfg].hw_ok = bigint_equal(mem.m_hw, mem.msg, CfgWords(cfg)),
                          ![cfg].sw_ok = bigint_equal(mem.m_sw, mem.msg, CfgWords(cfg))]
    /\ phase' = "done"
    /\ UNCHANGED <<globals, pc, cfg, run, mem, frames, dev, trace, harness>>

benchmark_return ==
    /\ pc = "bench"
    /\ phase = "done"
    /\ Leave
    /\ UNCHANGED <<globals, dev, out, harness>>

\* ------------------------------------------------------------------------
\* The program
\* ------------------------------------------------------------------------

\* the state at the entry of main, with n0 and m0 the low words of RSA_N and
\* RSA_MSG
ProgramInit(n0, m0) ==
    /\ RSA_N = [i \in 0 .. MAX_WORDS - 1 |-> IF i = 0 THEN n0 ELSE 0]
    /\ RSA_MSG = [i \in 0 .. MAX_WORDS - 1 |-> IF i = 0 THEN m0 ELSE 0]
    /\ RSA_R2 = [w \in Words |-> Zeros]
    /\ NPRIME = [w \in Words |-> 0]
    /\ pc = "main"
    /\ cfg = 0
    /\ phase = "none"
    /\ run = 0
    /\ mem = [b \in Bufs |-> Uninit]
    /\ hw = HwIdle
    /\ mm = MmIdle
    /\ sw = SwIdle
    /\ dev = DevReset
    /\ trace = <<>>
    /\ out = [c \in 1 .. 2 |-> OutNone]

Init ==
    /\ ProgramInit(RSA_N_WORD0, RSA_MSG_WORD0)
    /\ fn = "main"
    /\ arg = <<>>
    /\ res = [done |-> FALSE]

Next ==
    \/ main_init
    \/ benchmark_enter
    \/ benchmark_hw_run
    \/ mm_call
    \/ mm_write_operands
    \/ mm_start
    \/ device_complete
    \/ mm_poll_done
    \/ mm_poll_wait
    \/ mm_poll_timeout
    \/ mm_read_result
    \/ mm_return
    \/ modexp_hw_scalar_step
    \/ benchmark_hw_done
    \/ benchmark_hw_abort
    \/ benchmark_sw_run
    \/ modexp_sw_scalar_loop
    \/ modexp_sw_scalar_return
    \/ benchmark_next_phase
    \/ benchmark_report
    \/ benchmark_return

\* the program as it is built
Spec == Init /\ [][Next]_vars

\* the program built with another plaintext below the modulus
Messages == {0, 1, 2, RSA_MSG_WORD0, 53, 61, 1616, RSA_N_WORD0 - 1}

InitRSA ==
    /\ \E m \in Messages : ProgramInit(RSA_N_WORD0, m)
    /\ fn = "main"
    /\ arg = <<>>
    /\ res = [done |-> FALSE]

SpecRSA == InitRSA /\ [][Next]_vars

\* the program built with another odd modulus and a plaintext below it
MaxKeyModulus == 9

InitKeys ==
    /\ \E n \in {k \in 3 .. MaxKeyModulus : k % 2 = 1} :
          \E m \in 0 .. n - 1 : ProgramInit(n, m)
    /\ fn = "main"
    /\ arg = <<>>
    /\ res = [done |-> FALSE]

SpecKeys == InitKeys /\ [][Next]_vars

\* ------------------------------------------------------------------------
\* Function harnesses: a function of the program is called once on
\* arguments drawn from a bounded set
\* ------------------------------------------------------------------------

\* the value of the first nwords words of b, and the words of a value
RECURSIVE Value(_, _)
Value(b, nwords) ==
    IF nwords = 0 THEN 0 ELSE b[0] + U32 * Value([i \in 0 .. nwords - 2 |-> b[i + 1]], nwords - 1)

ToWords(v, nwords) == [i \in 0 .. nwords - 1 |-> (v \div Pow2(WordBits * i)) % U32]

HarnessInit ==
    /\ ProgramInit(RSA_N_WORD0, RSA_MSG_WORD0)
    /\ res = [done |-> FALSE]

program == <<RSA_N, RSA_MSG, RSA_R2, NPRIME, pc, cfg, phase, run, mem, hw, mm,
             sw, dev, trace, out>>

\* --- modmul_sw ---

\* moduli up to MaxSmallModulus are tried with every pair of operands, the
\* larger ones with the operands within EdgeSpan of 0 and of N
MaxSmallModulus == 15
EdgeSpan == 4

ModmulModuli(nwords) ==
    {n \in 1 .. MaxSmallModulus : n % 2 = 1}
        \cup (IF nwords = 1 THEN {U32 - 1} ELSE {U32 + 1})

ModmulOperands(n) == {v \in 0 .. n - 1 : v < EdgeSpan \/ v >= n - EdgeSpan}

InitModmul ==
    /\ HarnessInit
    /\ fn = "modmul_sw"
    /\ \E nwords \in {1, 2} : \E n \in ModmulModuli(nwords) :
          \E a \in ModmulOperands(n) : \E b \in ModmulOperands(n) :
             arg = [nwords |-> nwords, N |-> ToWords(n, nwords),
                    A |-> ToWords(a, nwords), B |-> ToWords(b, nwords)]

call_modmul_sw ==
    /\ fn = "modmul_sw"
    /\ ~res.done
    /\ res' = [done |-> TRUE, R |-> modmul_sw(arg.A, arg.B, arg.N, arg.nwords)]
    /\ UNCHANGED <<program, fn, arg>>

NextModmul == call_modmul_sw

SpecModmul == InitModmul /\ [][NextModmul]_vars

\* --- init_mont_params_for_size, modinv32, compute_R2_modN_32 ---

InitParams ==
    /\ \E n0 \in {n \in 1 .. U32 - 1 : n % 2 = 1} :
          /\ ProgramInit(n0, RSA_MSG_WORD0)
          /\ \E nwords \in Words : arg = [n0 |-> n0, nwords |-> nwords]
    /\ fn = "init_mont_params_for_size"
    /\ res = [done |-> FALSE]

call_init_mont_params_for_size ==
    /\ fn = "init_mont_params_for_size"
    /\ ~res.done
    /\ res' = [done |-> TRUE,
               inv |-> modinv32(RSA_N[0]),
               r2 |-> compute_R2_modN_32(RSA_N[0], arg.nwords),
               peak |-> compute_R2_peak(RSA_N[0], arg.nwords),
               params |-> init_mont_params_for_size(arg.nwords)]
    /\ UNCHANGED <<program, fn, arg>>

NextParams == call_init_mont_params_for_size

SpecParams == InitParams /\ [][NextParams]_vars

\* --- Timer_Delta ---

\* tick readings within TickSpan of 0, of the middle and of the top of the
\* counter's range
TickSpan == 3

Ticks ==
    (0 .. TickSpan)
        \cup (MAX_U64 - TickSpan .. MAX_U64)
        \cup (U64 \div 2 - TickSpan .. U64 \div 2 + TickSpan)

InitTimer ==
    /\ HarnessInit
    /\ fn = "Timer_Delta"
    /\ \E s \in Ticks : \E e \in Ticks : arg = [start |-> s, end |-> e]

call_Timer_Delta ==
    /\ fn = "Timer_Delta"
    /\ ~res.done
    /\ res' = [done |-> TRUE, delta |-> Timer_Delta(arg.start, arg.end)]
    /\ UNCHANGED <<program, fn, arg>>

NextTimer == call_Timer_Delta

SpecTimer == InitTimer /\ [][NextTimer]_vars

\* ------------------------------------------------------------------------
\* Properties
\* ------------------------------------------------------------------------

\* b^e mod m, from b^(e div 2) mod m
RECURSIVE PowMod(_, _, _)
PowMod(b, e, m) ==
    IF e = 0 THEN 1 % m
    ELSE LET h == PowMod(b, e \div 2, m)
         IN  (((h * h) % m) * (IF e % 2 = 1 THEN b % m ELSE 1)) % m

\* C1: for an odd modulus N of nwords words and operands A, B below N,
\* modmul_sw leaves (value(A) * value(B)) mod value(N) in R.
C1_ModmulExact ==
    res.done =>
        Value(res.R, arg.nwords)
            = (Value(arg.A, arg.nwords) * Value(arg.B, arg.nwords))
                  % Value(arg.N, arg.nwords)

\* C9: the reduction of modmul_sw ends with a value strictly below N.
C9_ModmulReduced ==
    res.done => Value(res.R, arg.nwords) < Value(arg.N, arg.nwords)

\* C2: when a benchmark reports, the ciphertext and the decrypted message of
\* the hardware exponentiation are, word for word, those of the software one.
C2_HwEqualsSw ==
    (pc = "bench" /\ phase = "done") =>
        /\ bigint_equal(mem.c_hw, mem.c_sw, CfgWords(cfg))
        /\ bigint_equal(mem.m_hw, mem.m_sw, CfgWords(cfg))

\* C3: with N = 3233, e = 17 over 5 bits and d = 2753 over 12 bits, a
\* benchmark that reports finds the message decrypted by the hardware path
\* and the message decrypted by the software path equal to the plaintext,
\* word for word, for either width.
C3_RoundTrip ==
    /\ \A c \in 1 .. 2 : out[c].report > 0 => out[c].hw_ok /\ out[c].sw_ok
    /\ (pc = "bench" /\ phase = "done") =>
          /\ bigint_equal(mem.m_hw, RSA_MSG, CfgWords(cfg))
          /\ bigint_equal(mem.m_sw, RSA_MSG, CfgWords(cfg))
          /\ bigint_equal(mem.c_hw, mem.c_sw, CfgWords(cfg))

C3_Witness ==
    /\ pc = "idle"
    /\ RSA_MSG[0] = 61
    /\ \A c \in 1 .. 2 : out[c].report = 1 /\ out[c].hw_ok /\ out[c].sw_ok

\* the status reads of the current call, in order
StatusReads == SelectSeq(trace, LAMBDA e : e.reg = "STATUS")
ResultReads == SelectSeq(trace, LAMBDA e : e.reg = "RES")
TimeoutPrints == SelectSeq(trace, LAMBDA e : e.reg = "TIMEOUT")

\* bit 0 of the status register was clear in each of the first n reads
StatusClearFor(n) ==
    /\ Len(StatusReads) >= n
    /\ \A k \in 1 .. n : StatusReads[k].val % 2 = 0

\* C4: montgomery_mul_hw returns failure if and only if bit 0 of the status
\* register is still clear after HW_DONE_TIMEOUT reads of it; a failed call
\* printed one timeout, read no result register and wrote no word of R.
C4_TimeoutIff ==
    mm.pc = "ret" =>
        /\ (mm.ok = 0) <=> StatusClearFor(HW_DONE_TIMEOUT)
        /\ mm.ok = 0 =>
              /\ Len(TimeoutPrints) = 1
              /\ Len(ResultReads) = 0
              /\ mem[mm.R] = mm.Rin

\* what the code does: the call fails exactly when HW_DONE_TIMEOUT + 1 reads
\* found the bit clear
PollBudget ==
    mm.pc = "ret" =>
        /\ (mm.ok = 0) <=> StatusClearFor(HW_DONE_TIMEOUT + 1)
        /\ Len(StatusReads) <= HW_DONE_TIMEOUT + 1
        /\ mm.ok = 0 =>
              /\ Len(TimeoutPrints) = 1
              /\ Len(ResultReads) = 0
              /\ mem[mm.R] = mm.Rin

C4_Witness ==
    /\ mm.pc = "ret"
    /\ mm.ok = 0
    /\ Len(StatusReads) = HW_DONE_TIMEOUT + 1

\* a step taken in a benchmark one of whose accelerator calls timed out
AfterTimeout ==
    \A c \in 1 .. 2 :
        out[c].timeouts > 0 =>
            /\ out'[c].timeouts = out[c].timeouts
            /\ out'[c].phases = out[c].phases
            /\ out'[c].report = 0
            /\ out'[c].aborts <= 1
            /\ cfg = c =>
                  /\ mm'.pc \in {"ret", "idle"}
                  /\ hw'.pc \in {hw.pc, "ret0", "idle"}
                  /\ mm.pc = "ret" => mm' = mm \/ hw'.pc = "ret0"
                  /\ sw'.pc = "idle"
                  /\ mem'.c_sw = mem.c_sw \/ mem'.c_sw = Uninit
                  /\ mem'.m_sw = mem.m_sw \/ mem'.m_sw = Uninit

\* what the benchmarks printed when main is over
WhenOver ==
    pc = "idle" =>
        \A c \in 1 .. 2 :
            IF out[c].timeouts = 0
            THEN out[c].phases = 4 /\ out[c].report = 1 /\ out[c].aborts = 0
            ELSE out[c].timeouts = 1 /\ out[c].aborts = 1 /\ out[c].report = 0
                     /\ out[c].phases < 4

\* C5: once an accelerator call timed out in a benchmark, the exponentiation
\* returns 0 without another call, and that benchmark does nothing more: no
\* accelerator call, no software exponentiation, no report.  The other
\* benchmark, when no call of its own timed out, goes through its four
\* phases and reports.
C5_AbortOnlyThatConfig == [][AfterTimeout]_vars /\ []WhenOver

C5_Witness ==
    /\ pc = "idle"
    /\ out[1].timeouts = 1
    /\ out[1].aborts = 1
    /\ out[1].report = 0
    /\ out[2].timeouts = 0
    /\ out[2].phases = 4
    /\ out[2].report = 1

\* the k-th access of a call that wrote its operands and started the device
OperandWrite(k) ==
    LET i == (k - 1) \div 3
        r == (k - 1) % 3
    IN  IF r = 0 THEN Access("write", "A", i, mm.Ain[i])
        ELSE IF r = 1 THEN Access("write", "B", i, mm.Bin[i])
        ELSE Access("write", "N", i, RSA_N[i])

\* the number of result reads among the first k accesses
ResultReadsBefore(k) ==
    Cardinality({j \in 1 .. k - 1 : trace[j].reg = "RES"})

\* C10: in a montgomery_mul_hw call the nwords words of A, B and N and then
\* n' are written before the one write of 1 to the control register; the
\* status register is read only after that write; a result register is read
\* only after a status read with bit 0 set, the result words 0 .. nwords - 1
\* in order into R; the words written to the device are those the operands
\* had when the call was made.
C10_AccessOrder ==
    mm.pc # "idle" =>
        LET nw == CfgWords(cfg)
        IN  /\ \A k \in 1 .. Len(trace) :
                  /\ k <= 3 * nw => trace[k] = OperandWrite(k)
                  /\ k = 3 * nw + 1 =>
                        trace[k] = Access("write", "NPRIME", 0, NPRIME[nw])
                  /\ k = 3 * nw + 2 => trace[k] = Access("write", "CONTROL", 0, 1)
                  /\ k > 3 * nw + 2 =>
                        /\ trace[k].op # "write"
                        /\ trace[k].reg \in {"STATUS", "RES", "TIMEOUT"}
                  /\ trace[k].reg = "RES" =>
                        /\ \E j \in 1 .. k - 1 :
                              trace[j].reg = "STATUS" /\ trace[j].val % 2 = 1
                        /\ trace[k].idx = ResultReadsBefore(k)
                        /\ trace[k].idx < nw
                  /\ (trace[k].reg = "STATUS" /\ k < Len(trace)) =>
                        IF trace[k].val % 2 = 1 THEN trace[k + 1].reg = "RES"
                        ELSE trace[k + 1].reg \in {"STATUS", "TIMEOUT"}
            /\ mm.pc \in {"poll", "read", "ret"} => Len(trace) >= 3 * nw + 2
            /\ (mm.pc = "ret" /\ mm.ok = 1) => Len(ResultReads) = nw
            /\ \A i \in 0 .. MAX_WORDS - 1 :
                  mem[mm.R][i] = IF i < Len(ResultReads) THEN ResultReads[i + 1].val
                                 ELSE mm.Rin[i]

C10_Witness ==
    /\ mm.pc = "ret"
    /\ mm.ok = 1
    /\ mm.R = mm.A
    /\ Len(StatusReads) = 2
    /\ Len(ResultReads) = CfgWords(cfg)
    /\ mem[mm.R] # mm.Rin

\* C6: for an odd n, modinv32(n) is a word v with v * n = 1 modulo 2^32, and
\* the n' of init_mont_params_for_size has n' * N[0] = -1 modulo 2^32.
C6_InverseAndNPrime ==
    res.done =>
        /\ res.inv \in 0 .. U32 - 1
        /\ (res.inv * arg.n0) % U32 = 1 % U32
        /\ res.params.nprime \in 0 .. U32 - 1
        /\ (res.params.nprime * RSA_N[0]) % U32 = (U32 - 1) % U32

C6_Witness ==
    /\ res.done
    /\ arg.n0 = RSA_N_WORD0
    /\ res.inv > 1
    /\ (res.params.nprime * RSA_N_WORD0 + 1) % U32 = 0

\* C7: compute_R2_modN_32(n0, w) is (2^(32 w))^2 mod n0, and neither the
\* doubling nor the last squaring goes beyond 64 bits.
C7_R2Exact ==
    res.done =>
        /\ res.r2 = PowMod(2, 2 * WordBits * arg.nwords, arg.n0)
        /\ res.params.R2[0] = res.r2
        /\ \A i \in 1 .. MAX_WORDS - 1 : res.params.R2[i] = 0
        /\ res.peak < U64

C7_Witness ==
    /\ res.done
    /\ arg.n0 = U32 - 1
    /\ arg.nwords = NWORDS_2048
    /\ res.r2 = 1
    /\ res.peak >= U32

\* C8: Timer_Delta(start, end) is (end - start) modulo 2^64: end - start when
\* end >= start, (MAX_U64 - start) + 1 + end when the counter wrapped.
C8_TimerDelta ==
    res.done =>
        /\ res.delta = (arg.end - arg.start) % U64
        /\ arg.end >= arg.start => res.delta = arg.end - arg.start
        /\ arg.end < arg.start => res.delta = (MAX_U64 - arg.start) + 1 + arg.end

C8_Witness ==
    /\ res.done
    /\ arg.start = MAX_U64
    /\ arg.end = 1
    /\ res.delta = 2

\* the product of modmul_sw is exact whenever the value it returns is below N
\* (it is not: the words of the product above nwords are dropped)
ModmulExactWhenReduced ==
    (res.done /\ Value(res.R, arg.nwords) < Value(arg.N, arg.nwords)) =>
        Value(res.R, arg.nwords)
            = (Value(arg.A, arg.nwords) * Value(arg.B, arg.nwords))
                  % Value(arg.N, arg.nwords)

\* every operand modexp_sw_scalar passes to modmul_sw is below N
SwOperandsReduced ==
    sw.pc = "loop" =>
        /\ Value(mem.sw_x, CfgWords(cfg)) < Value(RSA_N, CfgWords(cfg))
        /\ Value(mem.sw_a, CfgWords(cfg)) < Value(RSA_N, CfgWords(cfg))

====
